---------------------------- MODULE Spec2Model ----------------------------
(***************************************************************************)
(* A model of the ordmask crate: OrdMask<T>, a subset of an ordered domain *)
(* stored as a list of key points (boundaries) and a `reversed` flag.      *)
(*                                                                         *)
(* A mask is the record [key_points |-> <<...>>, reversed |-> BOOLEAN].    *)
(* The constructors and the set operations (construct.rs, operations.rs,   *)
(* convert.rs) build the struct from the two fields key_points and         *)
(* reversed; the queries of ordmask.rs read the vector as `self.0`, which  *)
(* is the key_points vector here.  Rust vectors are indexed from 0 and TLA+*)
(* sequences from 1: At(vec, i) reads the Rust element vec[i].             *)
(***************************************************************************)
EXTENDS Integers, Sequences, FiniteSets, TLC

VARIABLES
    \* -- the program of Spec: masks built and combined in any order
    held,          \* the masks the program holds: slot -> mask
    unchecked,     \* the slots whose mask was built by or from with_unchecked
    panicked,      \* TRUE once from / from_complement has unwrapped an Err
    \* -- one call of a set operation (SpecAlgebra)
    operands,      \* the masks handed to the operation
    op,            \* the operation applied, "none" before the call
    out,           \* the mask it returned
    \* -- one conversion of a vector, statement by statement (SpecConvert)
    caller,        \* try_from, from, from_complement or with_unchecked
    input,         \* the vector handed to the caller
    self_vec,      \* self.0 / self.key_points of the mask under construction
    self_reversed, \* self.reversed of the mask under construction
    pc,            \* the statement the conversion is at
    write_index,   \* simplify's locals
    read_index,
    start,
    falling_pos    \* Error.falling_pos, 0 while there is no Error

api_vars == <<held, unchecked, panicked>>

algebra_vars == <<operands, op, out>>

convert_vars == <<caller, input, self_vec, self_reversed, pc,
                  write_index, read_index, start, falling_pos>>

vars == <<api_vars, algebra_vars, convert_vars>>

\* ---------------------------------------------------------------- bounds
\* T is modelled as the integers 0..MaxValue.
MaxValue == 2
\* Longest vector handed to try_from / from / from_complement / with_unchecked
\* by the program below.
MaxLen == 2
\* Longest list of masks handed to union / intersection / minus.
MaxArgs == 3
\* Longest vector converted statement by statement (SpecConvert).
MaxVecLen == 4

Values == 0..MaxValue

\* ------------------------------------------------------------- helpers
At(vec, i) == vec[i + 1]

Xor(p, q) == p # q

Range(vec) == {vec[i] : i \in 1..Len(vec)}

Min(S) == CHOOSE x \in S : \A y \in S : x <= y

\* All vectors over Values of length at most n.
VecsUpTo(n) == UNION {[1..k -> Values] : k \in 0..n}

\* ------------------------------------------------------- ordmask.rs
\* The prefix of elements strictly below value (|x| x < value).
RECURSIVE partition_point_below(_, _, _)
partition_point_below(vec, value, i) ==
    IF i < Len(vec) /\ At(vec, i) < value
    THEN partition_point_below(vec, value, i + 1)
    ELSE i

\* slice::partition_point(|x| x <= value): the length of the prefix of
\* elements that satisfy the predicate.
RECURSIVE partition_point(_, _, _)
partition_point(vec, value, i) ==
    IF i < Len(vec) /\ At(vec, i) <= value
    THEN partition_point(vec, value, i + 1)
    ELSE i

len(mask) == Len(mask.key_points)

is_empty(mask) == Len(mask.key_points) = 0

\* A variant of included that counts only the boundaries below value.
included_below(mask, value) ==
    partition_point_below(mask.key_points, value, 0) % 2 = 1

included(mask, value) == partition_point(mask.key_points, value, 0) % 2 = 1

excluded(mask, value) == ~included(mask, value)

is_include_max_value(mask) == Len(mask.key_points) % 2 = 1

is_simplified(mask) ==
    \A i \in 1..(len(mask) - 1) :
        At(mask.key_points, i) # At(mask.key_points, i - 1)

\* T::min_value() of the unsigned integer types: <$t>::MIN.
min_value == 0

\* self.0[0] == T::min_value(); indexing an empty vector panics.
is_include_min_value(mask) == At(mask.key_points, 0) = min_value

\* self.0.len() == 1 && self.is_include_min_value()
is_universal(mask) == len(mask) = 1 /\ is_include_min_value(mask)

\* ------------------------------------------------------- convert.rs
\* for i in 1..vec.len() { if vec[i] < vec[i - 1] { return i; } } 0
RECURSIVE falling_scan(_, _)
falling_scan(vec, i) ==
    IF i < Len(vec)
    THEN IF At(vec, i) < At(vec, i - 1) THEN i ELSE falling_scan(vec, i + 1)
    ELSE 0

\* A variant of the scan that also rejects equal neighbours.
RECURSIVE falling_or_equal_scan(_, _)
falling_or_equal_scan(vec, i) ==
    IF i < Len(vec)
    THEN IF At(vec, i) <= At(vec, i - 1)
         THEN i
         ELSE falling_or_equal_scan(vec, i + 1)
    ELSE 0

get_first_falling_or_equal_index(vec) == falling_or_equal_scan(vec, 1)

get_first_falling_index(vec) == falling_scan(vec, 1)

is_valid(mask) == get_first_falling_index(mask.key_points) = 0

\* ------------------------------------------------- ordmask.rs: simplify
\* In the operators below wi, ri and st are the values of the locals
\* write_index, read_index and start.

\* The condition of the inner loop: read_index < len && self.0[read_index] == self.0[start]
in_run(vec, st, ri) == ri < Len(vec) /\ At(vec, ri) = At(vec, st)

\* The inner loop: advance read_index over the run that begins at start.
RECURSIVE run_end(_, _, _)
run_end(vec, st, ri) ==
    IF in_run(vec, st, ri) THEN run_end(vec, st, ri + 1) ELSE ri

\* A variant that keeps one copy of every run (plain deduplication).
run_kept_always(ri, st) == ri - st >= 1

\* (read_index - start) % 2 == 1: a run is kept, once, when its length is odd.
run_kept(ri, st) == (ri - st) % 2 = 1

\* self.0[write_index] = self.0[start].clone()
write_at(vec, wi, st) == [vec EXCEPT ![wi + 1] = At(vec, st)]

\* self.0.truncate(write_index)
truncate(vec, wi) == SubSeq(vec, 1, wi)

\* The outer loop, from the state (vec, write_index, read_index).
RECURSIVE simplify_loop(_, _, _)
simplify_loop(vec, wi, ri) ==
    IF ri < Len(vec)
    THEN LET st == ri
             next_read == run_end(vec, st, ri)
         IN  IF run_kept(next_read, st)
             THEN simplify_loop(write_at(vec, wi, st), wi + 1, next_read)
             ELSE simplify_loop(vec, wi, next_read)
    ELSE truncate(vec, wi)

simplify(mask) ==
    IF len(mask) < 2
    THEN mask
    ELSE [mask EXCEPT !.key_points = simplify_loop(mask.key_points, 0, 0)]

\* ----------------------------------------------------- construct.rs
new(key_points, reversed) == [key_points |-> key_points, reversed |-> reversed]

empty == new(<<>>, FALSE)

universal == new(<<>>, TRUE)

not_less_than(value) == new(<<value>>, FALSE)

less_than(value) == new(<<value>>, TRUE)

\* A variant of in_range that also accepts from = end.
in_range_or_equal(from, end) ==
    IF from <= end THEN new(<<from, end>>, FALSE) ELSE empty

in_range(from, end) ==
    IF from < end THEN new(<<from, end>>, FALSE) ELSE empty

exclude_range(from, end) ==
    IF from < end THEN new(<<from, end>>, TRUE) ELSE universal

\* The test that decides whether a point is pushed onto the result.
point_kept(is_included_at_point, mask_len, include_min_value) ==
    Xor(is_included_at_point = (mask_len % 2 = 0), include_min_value)

\* The loop over the BTreeSet, in ascending order; `mask` is the vector
\* built so far, is_included a function defined at least on the key points.
RECURSIVE key_points_loop(_, _, _, _)
key_points_loop(key_points, is_included, include_min_value, mask) ==
    IF key_points = {}
    THEN mask
    ELSE LET point == Min(key_points)
         IN  key_points_loop(
                 key_points \ {point}, is_included, include_min_value,
                 IF point_kept(is_included[point], Len(mask), include_min_value)
                 THEN Append(mask, point)
                 ELSE mask)

from_key_points_set(key_points, is_included, include_min_value) ==
    new(key_points_loop(key_points, is_included, include_min_value, <<>>),
        include_min_value)

\* map is a function from its key set to BOOLEAN.
RECURSIVE key_points_map_loop(_, _, _, _)
key_points_map_loop(keys, map, include_min_value, mask) ==
    IF keys = {}
    THEN mask
    ELSE LET point == Min(keys)
         IN  key_points_map_loop(
                 keys \ {point}, map, include_min_value,
                 IF point_kept(map[point], Len(mask), include_min_value)
                 THEN Append(mask, point)
                 ELSE mask)

from_key_points_map(map, include_min_value) ==
    new(key_points_map_loop(DOMAIN map, map, include_min_value, <<>>),
        include_min_value)

\* ------------------------------------------------------- convert.rs
\* Result<OrdMask, Error>
Ok(mask) == [ok |-> TRUE, mask |-> mask]

Err(n) == [ok |-> FALSE, falling_pos |-> n]

try_new(key_points, reversed) ==
    LET n == get_first_falling_index(key_points)
    IN  IF n = 0 THEN Ok(simplify(new(key_points, reversed))) ELSE Err(n)

try_from(key_points) == try_new(key_points, FALSE)

with_unchecked(key_points, reversed) == new(key_points, reversed)

\* ---------------------------------------------------- operations.rs
\* masks is a sequence of masks (the slice &[&OrdMask<T>]).
get_key_points_set(masks) ==
    UNION {Range(masks[i].key_points) : i \in 1..Len(masks)}

union(masks) ==
    from_key_points_set(
        get_key_points_set(masks),
        [x \in Values |-> \E i \in 1..Len(masks) : included(masks[i], x)],
        \E i \in 1..Len(masks) : masks[i].reversed)

intersection(masks) ==
    from_key_points_set(
        get_key_points_set(masks),
        [x \in Values |-> \A i \in 1..Len(masks) : included(masks[i], x)],
        \A i \in 1..Len(masks) : masks[i].reversed)

minus(self, others) ==
    from_key_points_set(
        get_key_points_set(<<self>> \o others),
        [x \in Values |-> included(self, x)
                          /\ \A i \in 1..Len(others) : excluded(others[i], x)],
        self.reversed /\ ~(\E i \in 1..Len(others) : others[i].reversed))

symmetric_difference(self, other) ==
    from_key_points_set(
        get_key_points_set(<<self, other>>),
        [x \in Values |-> included(self, x) # included(other, x)],
        Xor(self.reversed, other.reversed))

complement(self) == [key_points |-> self.key_points, reversed |-> ~self.reversed]

new_complement(self) ==
    [key_points |-> self.key_points, reversed |-> ~self.reversed]

reverse(self) == [self EXCEPT !.reversed = ~self.reversed]


\* ======================================================================
\* The program: two owned masks, `a` and `b`, and every public operation
\* applied to them in any order.
\* ======================================================================
Slots == {"a", "b"}

\* The vectors that satisfy with_unchecked's safety precondition.
NonDecreasing(vec) == \A i \in 1..(Len(vec) - 1) : vec[i] <= vec[i + 1]

NonDecreasingVecs == {vec \in VecsUpTo(MaxLen) : NonDecreasing(vec)}

\* The slices &[&OrdMask<T>] a caller can form from the held it holds.
ArgLists == UNION {[1..k -> Slots] : k \in 0..MaxArgs}

Deref(args) == [i \in 1..Len(args) |-> held[args[i]]]

\* Store a mask built from the slots in `srcs` into slot d.
Store(d, mask, srcs) ==
    /\ held' = [held EXCEPT ![d] = mask]
    /\ unchecked' = IF srcs \cap unchecked # {}
                    THEN unchecked \cup {d}
                    ELSE unchecked \ {d}
    /\ UNCHANGED <<panicked, algebra_vars, convert_vars>>

IdleApi ==
    /\ held = [s \in Slots |-> empty]
    /\ unchecked = {}
    /\ panicked = FALSE

IdleAlgebra ==
    /\ operands = <<>>
    /\ op = "none"
    /\ out = empty

IdleConvert ==
    /\ caller = "none"
    /\ input = <<>>
    /\ self_vec = <<>>
    /\ self_reversed = FALSE
    /\ pc = "idle"
    /\ write_index = 0
    /\ read_index = 0
    /\ start = 0
    /\ falling_pos = 0

Init == IdleApi /\ IdleAlgebra /\ IdleConvert

Empty(d) == ~panicked /\ Store(d, empty, {})

Universal(d) == ~panicked /\ Store(d, universal, {})

NotLessThan(d) ==
    /\ ~panicked
    /\ \E value \in Values : Store(d, not_less_than(value), {})

LessThan(d) ==
    /\ ~panicked
    /\ \E value \in Values : Store(d, less_than(value), {})

InRange(d) ==
    /\ ~panicked
    /\ \E from \in Values, end \in Values : Store(d, in_range(from, end), {})

ExcludeRange(d) ==
    /\ ~panicked
    /\ \E from \in Values, end \in Values :
           Store(d, exclude_range(from, end), {})

FromKeyPointsSet(d) ==
    /\ ~panicked
    /\ \E key_points \in SUBSET Values, include_min_value \in BOOLEAN :
           \E is_included \in [key_points -> BOOLEAN] :
               Store(d, from_key_points_set(key_points, is_included,
                                            include_min_value), {})

FromKeyPointsMap(d) ==
    /\ ~panicked
    /\ \E keys \in SUBSET Values, include_min_value \in BOOLEAN :
           \E map \in [keys -> BOOLEAN] :
               Store(d, from_key_points_map(map, include_min_value), {})

\* An Err is returned to the caller and no mask is built.
TryFrom(d) ==
    /\ ~panicked
    /\ \E key_points \in VecsUpTo(MaxLen) :
           LET r == try_from(key_points)
           IN  IF r.ok THEN Store(d, r.mask, {}) ELSE UNCHANGED vars

\* try_new(..).unwrap(): an Err aborts the program.
Unwrap(d, r) ==
    IF r.ok
    THEN Store(d, r.mask, {})
    ELSE /\ panicked' = TRUE
         /\ UNCHANGED <<held, unchecked, algebra_vars, convert_vars>>

From(d) ==
    /\ ~panicked
    /\ \E key_points \in VecsUpTo(MaxLen) :
           Unwrap(d, try_new(key_points, FALSE))

FromComplement(d) ==
    /\ ~panicked
    /\ \E key_points \in VecsUpTo(MaxLen) :
           Unwrap(d, try_new(key_points, TRUE))

WithUnchecked(d) ==
    /\ ~panicked
    /\ \E key_points \in NonDecreasingVecs, reversed \in BOOLEAN :
           /\ held' = [held EXCEPT ![d] = with_unchecked(key_points, reversed)]
           /\ unchecked' = unchecked \cup {d}
           /\ UNCHANGED <<panicked, algebra_vars, convert_vars>>

Union(d) ==
    /\ ~panicked
    /\ \E args \in ArgLists : Store(d, union(Deref(args)), Range(args))

Intersection(d) ==
    /\ ~panicked
    /\ \E args \in ArgLists : Store(d, intersection(Deref(args)), Range(args))

Minus(d) ==
    /\ ~panicked
    /\ \E self \in Slots, others \in ArgLists :
           Store(d, minus(held[self], Deref(others)),
                 {self} \cup Range(others))

SymmetricDifference(d) ==
    /\ ~panicked
    /\ \E self \in Slots, other \in Slots :
           Store(d, symmetric_difference(held[self], held[other]),
                 {self, other})

\* d = d.complement()
Complement(d) == ~panicked /\ Store(d, complement(held[d]), {d})

\* d = s.new_complement()
NewComplement(d) ==
    /\ ~panicked
    /\ \E s \in Slots : Store(d, new_complement(held[s]), {s})

\* d.reverse()
Reverse(d) == ~panicked /\ Store(d, reverse(held[d]), {d})

\* d.simplify()
Simplify(d) == ~panicked /\ Store(d, simplify(held[d]), {d})

Next ==
    \E d \in Slots :
        \/ Empty(d)
        \/ Universal(d)
        \/ NotLessThan(d)
        \/ LessThan(d)
        \/ InRange(d)
        \/ ExcludeRange(d)
        \/ FromKeyPointsSet(d)
        \/ FromKeyPointsMap(d)
        \/ TryFrom(d)
        \/ From(d)
        \/ FromComplement(d)
        \/ WithUnchecked(d)
        \/ Union(d)
        \/ Intersection(d)
        \/ Minus(d)
        \/ SymmetricDifference(d)
        \/ Complement(d)
        \/ NewComplement(d)
        \/ Reverse(d)
        \/ Simplify(d)

Spec == Init /\ [][Next]_vars


\* ======================================================================
\* One call of a set operation on masks the safe constructors can build.
\* ======================================================================
StrictlyIncreasingVecs ==
    {vec \in VecsUpTo(MaxValue + 1) : \A i \in 1..(Len(vec) - 1) : vec[i] < vec[i + 1]}

\* from(vec) and from_complement(vec) of every strictly increasing vector.
WellFormedMasks ==
    {new(vec, reversed) : vec \in StrictlyIncreasingVecs, reversed \in BOOLEAN}

OperandLists == UNION {[1..k -> WellFormedMasks] : k \in 0..MaxArgs}

InitAlgebra ==
    /\ IdleApi
    /\ IdleConvert
    /\ operands \in OperandLists
    /\ op = "none"
    /\ out = empty

Return(name, mask) ==
    /\ op = "none"
    /\ op' = name
    /\ out' = mask
    /\ UNCHANGED <<operands, api_vars, convert_vars>>

\* OrdMask::union(&operands)
CallUnion == Return("union", union(operands))

\* OrdMask::intersection(&operands)
CallIntersection == Return("intersection", intersection(operands))

\* operands[0].minus(&operands[1..])
CallMinus ==
    /\ Len(operands) >= 1
    /\ Return("minus", minus(Head(operands), Tail(operands)))

\* operands[0].symmetric_difference(&operands[1])
CallSymmetricDifference ==
    /\ Len(operands) = 2
    /\ Return("symmetric_difference",
              symmetric_difference(operands[1], operands[2]))

\* operands[0].complement()
CallComplement ==
    /\ Len(operands) = 1
    /\ Return("complement", complement(operands[1]))

\* operands[0].new_complement()
CallNewComplement ==
    /\ Len(operands) = 1
    /\ Return("new_complement", new_complement(operands[1]))

\* operands[0].reverse(), on a clone
CallReverse ==
    /\ Len(operands) = 1
    /\ Return("reverse", reverse(operands[1]))

NextAlgebra ==
    \/ CallUnion
    \/ CallIntersection
    \/ CallMinus
    \/ CallSymmetricDifference
    \/ CallComplement
    \/ CallNewComplement
    \/ CallReverse

SpecAlgebra == InitAlgebra /\ [][NextAlgebra]_vars

\* ======================================================================
\* One conversion of a vector into a mask, statement by statement:
\* try_from / from / from_complement (try_new: validate, then simplify),
\* or with_unchecked followed by the caller's simplify().
\* ======================================================================
Callers == {"try_from", "from", "from_complement", "with_unchecked"}

\* The `reversed` argument each caller passes on.
ReversedArgs(c) ==
    CASE c = "from_complement" -> {TRUE}
      [] c = "with_unchecked" -> BOOLEAN
      [] OTHER -> {FALSE}

InitConvert ==
    /\ IdleApi
    /\ IdleAlgebra
    /\ caller \in Callers
    /\ input \in VecsUpTo(MaxVecLen)
    /\ self_vec = input
    /\ self_reversed \in ReversedArgs(caller)
    /\ pc = "call"
    /\ write_index = 0
    /\ read_index = 0
    /\ start = 0
    /\ falling_pos = 0

\* try_new: match get_first_falling_index(&key_points); an Err goes back to
\* try_from's caller and is unwrapped (a panic) by from and from_complement.
Validate ==
    /\ pc = "call"
    /\ caller # "with_unchecked"
    /\ LET n == get_first_falling_index(self_vec)
       IN  IF n = 0
           THEN /\ pc' = "simplify"
                /\ UNCHANGED falling_pos
           ELSE /\ falling_pos' = n
                /\ pc' = IF caller = "try_from" THEN "err" ELSE "panic"
    /\ UNCHANGED <<caller, input, self_vec, self_reversed,
                   write_index, read_index, start, api_vars, algebra_vars>>

\* with_unchecked: the mask is built from the vector as it is.
BuildUnchecked ==
    /\ pc = "call"
    /\ caller = "with_unchecked"
    /\ pc' = "built"
    /\ UNCHANGED <<caller, input, self_vec, self_reversed, write_index,
                   read_index, start, falling_pos, api_vars, algebra_vars>>

\* The owner of the unchecked mask calls simplify().
CallSimplify ==
    /\ pc = "built"
    /\ pc' = "simplify"
    /\ UNCHANGED <<caller, input, self_vec, self_reversed, write_index,
                   read_index, start, falling_pos, api_vars, algebra_vars>>

\* simplify: if len < 2 { return; } let mut write_index = 0; let mut read_index = 0;
SimplifyEnter ==
    /\ pc = "simplify"
    /\ IF Len(self_vec) < 2
       THEN /\ pc' = "done"
            /\ UNCHANGED <<write_index, read_index>>
       ELSE /\ write_index' = 0
            /\ read_index' = 0
            /\ pc' = "outer"
    /\ UNCHANGED <<caller, input, self_vec, self_reversed, start,
                   falling_pos, api_vars, algebra_vars>>

\* while read_index < len { let start = read_index; ... } self.0.truncate(write_index);
OuterTest ==
    /\ pc = "outer"
    /\ IF read_index < Len(self_vec)
       THEN /\ start' = read_index
            /\ pc' = "inner"
            /\ UNCHANGED self_vec
       ELSE /\ self_vec' = truncate(self_vec, write_index)
            /\ pc' = "done"
            /\ UNCHANGED start
    /\ UNCHANGED <<caller, input, self_reversed, write_index, read_index,
                   falling_pos, api_vars, algebra_vars>>

\* while read_index < len && self.0[read_index] == self.0[start] { read_index += 1; }
InnerStep ==
    /\ pc = "inner"
    /\ IF in_run(self_vec, start, read_index)
       THEN /\ read_index' = read_index + 1
            /\ UNCHANGED pc
       ELSE /\ pc' = "emit"
            /\ UNCHANGED read_index
    /\ UNCHANGED <<caller, input, self_vec, self_reversed, write_index,
                   start, falling_pos, api_vars, algebra_vars>>

\* if (read_index - start) % 2 == 1 { self.0[write_index] = ...; write_index += 1; }
Emit ==
    /\ pc = "emit"
    /\ IF run_kept(read_index, start)
       THEN /\ self_vec' = write_at(self_vec, write_index, start)
            /\ write_index' = write_index + 1
       ELSE UNCHANGED <<self_vec, write_index>>
    /\ pc' = "outer"
    /\ UNCHANGED <<caller, input, self_reversed, read_index, start,
                   falling_pos, api_vars, algebra_vars>>

NextConvert ==
    \/ Validate
    \/ BuildUnchecked
    \/ CallSimplify
    \/ SimplifyEnter
    \/ OuterTest
    \/ InnerStep
    \/ Emit

\* The conversion is sequential code: it runs until it returns or panics.
SpecConvert == InitConvert /\ [][NextConvert]_vars /\ WF_vars(NextConvert)

\* ======================================================================
\* One call of from_key_points_set or from_key_points_map. `operands`
\* holds the arguments of the call: the BTreeSet, the predicate (a total
\* function on the domain) and include_min_value.
\* ======================================================================
KeyPointsArgs ==
    [key_points : SUBSET Values,
     is_included : [Values -> BOOLEAN],
     include_min_value : BOOLEAN]

InitKeyPoints ==
    /\ IdleApi
    /\ IdleConvert
    /\ operands \in KeyPointsArgs
    /\ op = "none"
    /\ out = empty

\* OrdMask::from_key_points_set(key_points, is_included, include_min_value)
CallFromKeyPointsSet ==
    Return("from_key_points_set",
           from_key_points_set(operands.key_points, operands.is_included,
                               operands.include_min_value))

\* OrdMask::from_key_points_map(map, include_min_value), where map holds
\* (p, is_included(p)) for every key point p.
CallFromKeyPointsMap ==
    Return("from_key_points_map",
           from_key_points_map(
               [point \in operands.key_points |-> operands.is_included[point]],
               operands.include_min_value))

NextKeyPoints ==
    \/ CallFromKeyPointsSet
    \/ CallFromKeyPointsMap

SpecKeyPoints == InitKeyPoints /\ [][NextKeyPoints]_vars

\* ======================================================================
\* Properties of the program (Spec)
\* ======================================================================
StrictlyIncreasing(vec) == \A i \in 1..(Len(vec) - 1) : vec[i] < vec[i + 1]

\* The number of boundaries of a mask that are <= value.
BoundariesUpTo(mask, value) ==
    Cardinality({i \in 1..len(mask) : mask.key_points[i] <= value})

\* C1: for every held mask with non-decreasing boundaries and every value v,
\* included(v) is leading_state (reversed) XOR "the number of boundaries <= v
\* is odd", and excluded(v) is its negation; so universal() includes every
\* value and less_than(b) exactly the values below b.
C1_IncludedIsLeadingXorParity ==
    \A s \in Slots : \A v \in Values :
        NonDecreasing(held[s].key_points) =>
            /\ included(held[s], v)
                   = Xor(held[s].reversed, BoundariesUpTo(held[s], v) % 2 = 1)
            /\ excluded(held[s], v) = ~included(held[s], v)

\* C8: every mask built without with_unchecked is valid and simplified (its
\* boundaries strictly increase), so a mask with equal adjacent boundaries
\* stems from with_unchecked, and simplify() leaves a safely built mask as
\* it is.
C8_SafeMasksSimplified ==
    /\ \A s \in Slots \ unchecked :
           /\ is_valid(held[s])
           /\ is_simplified(held[s])
           /\ StrictlyIncreasing(held[s].key_points)
           /\ simplify(held[s]) = held[s]
    /\ \A s \in Slots : ~is_simplified(held[s]) => s \in unchecked

\* A safely built mask with two or more boundaries beside a mask from
\* with_unchecked that has equal adjacent boundaries.
C8_Witness ==
    \E s \in Slots \ unchecked, t \in unchecked :
        /\ len(held[s]) >= 2
        /\ ~is_simplified(held[t])

\* A mask that meets the two representation invariants.
WellFormed(mask) == is_valid(mask) /\ is_simplified(mask)

SameAnswers(m1, m2) == \A v \in Values : included(m1, v) = included(m2, v)

BoundariesBetween(mask, lo, hi) ==
    {b \in Range(mask.key_points) : lo < b /\ b < hi}

\* C12: for a well-formed held mask and values v1 < v2 with no boundary
\* strictly between them (v1 and v2 may themselves be boundaries),
\* included(v1) = included(v2).
C12_ParityBetweenBoundaries ==
    \A s \in Slots : \A v1 \in Values, v2 \in Values :
        (/\ WellFormed(held[s])
         /\ v1 < v2
         /\ BoundariesBetween(held[s], v1, v2) = {}) =>
            included(held[s], v1) = included(held[s], v2)

\* C12, amended: for a well-formed held mask and values v1 < v2 with no
\* boundary b such that v1 < b <= v2 (v1 may be a boundary, v2 may not),
\* included(v1) = included(v2).
C12_ParityUpToUpperValue ==
    \A s \in Slots : \A v1 \in Values, v2 \in Values :
        (/\ WellFormed(held[s])
         /\ v1 < v2
         /\ BoundariesBetween(held[s], v1, v2 + 1) = {}) =>
            included(held[s], v1) = included(held[s], v2)

\* A held mask with a boundary at v1, none in (v1, v2] and one above v2.
C12_Witness ==
    \E s \in Slots : \E v1 \in Values, v2 \in Values :
        /\ WellFormed(held[s])
        /\ v1 < v2
        /\ v1 \in Range(held[s].key_points)
        /\ BoundariesBetween(held[s], v1, v2 + 1) = {}
        /\ \E b \in Range(held[s].key_points) : b > v2
        /\ included(held[s], v1)

\* C13: is_empty() iff no boundaries and leading_state false; is_universal()
\* iff no boundaries and leading_state true (evaluated without failure on a
\* mask with no boundaries); so an empty mask includes no value, a universal
\* mask every value, universal() is not empty and no mask is both.
C13_EmptyAndUniversal ==
    \A s \in Slots :
           /\ held[s] = universal => ~is_empty(held[s])
           /\ is_empty(held[s])
                  = (held[s].key_points = <<>> /\ ~held[s].reversed)
           /\ is_universal(held[s])
                  = (held[s].key_points = <<>> /\ held[s].reversed)
           /\ is_empty(held[s]) => \A v \in Values : ~included(held[s], v)
           /\ is_universal(held[s]) => \A v \in Values : included(held[s], v)
           /\ ~(is_empty(held[s]) /\ is_universal(held[s]))

\* ======================================================================
\* Properties of one call of a set operation (SpecAlgebra)
\* ======================================================================
AnyIncludes(masks, v) == \E i \in 1..Len(masks) : included(masks[i], v)

AllInclude(masks, v) == \A i \in 1..Len(masks) : included(masks[i], v)

\* C2: union(masks) includes v iff at least one of the masks includes v.
C2_UnionIncludesIffAny ==
    op = "union" =>
        \A v \in Values : included(out, v) = AnyIncludes(operands, v)

\* C3: intersection(masks) includes v iff every one of the masks includes v.
C3_IntersectionIncludesIffAll ==
    op = "intersection" =>
        \A v \in Values : included(out, v) = AllInclude(operands, v)

\* C4: self.minus(others) includes v iff self includes v and every mask of
\* others excludes v.
C4_MinusIncludesIffSelfOnly ==
    op = "minus" =>
        \A v \in Values :
            included(out, v)
                = (/\ included(Head(operands), v)
                   /\ \A i \in 2..Len(operands) : excluded(operands[i], v))

\* C5: a.symmetric_difference(b) includes v iff exactly one of a and b
\* includes v; a ^ b = b ^ a; and a ^ a is the empty mask.
C5_SymmetricDifferenceIsXor ==
    op = "symmetric_difference" =>
        /\ \A v \in Values :
               included(out, v)
                   = (included(operands[1], v) # included(operands[2], v))
        /\ out = symmetric_difference(operands[2], operands[1])
        /\ operands[1] = operands[2] => out = empty

\* C6: complement(m) includes v iff m excludes v; it keeps the boundaries
\* and flips leading_state; complementing twice restores m; complement,
\* new_complement and reverse agree.
C6_ComplementLaw ==
    op \in {"complement", "new_complement", "reverse"} =>
        /\ \A v \in Values : included(out, v) = ~included(operands[1], v)
        /\ out.key_points = operands[1].key_points
        /\ out.reversed = ~operands[1].reversed
        /\ complement(out) = operands[1]
        /\ reverse(out) = operands[1]
        /\ out = complement(operands[1])
        /\ out = new_complement(operands[1])
        /\ out = reverse(operands[1])

\* C7: De Morgan: complement(union(a, b)) is the same mask as
\* intersection(complement(a), complement(b)), and
\* complement(intersection(a, b)) the same mask as
\* union(complement(a), complement(b)).
C7_DeMorgan ==
    /\ (op = "union" /\ Len(operands) = 2) =>
           complement(out)
               = intersection(<<complement(operands[1]), complement(operands[2])>>)
    /\ (op = "intersection" /\ Len(operands) = 2) =>
           complement(out)
               = union(<<complement(operands[1]), complement(operands[2])>>)

\* ======================================================================
\* Properties of one conversion (SpecConvert)
\* ======================================================================
Count(vec, x) == Cardinality({i \in 1..Len(vec) : vec[i] = x})

\* The values that occur an odd number of times; in a non-decreasing vector
\* the occurrences of a value are one maximal run.
OddRunValues(vec) == {x \in Range(vec) : Count(vec, x) % 2 = 1}

\* vec holds exactly one copy of each value of odd run length in orig, in
\* ascending (the original) order, and nothing else.
IsSimplificationOf(vec, orig) ==
    /\ StrictlyIncreasing(vec)
    /\ Range(vec) = OddRunValues(orig)

\* The Rust indices i >= 1 with vec[i] < vec[i - 1].
FallingIndices(vec) == {i \in 1..(Len(vec) - 1) : vec[i + 1] < vec[i]}

ConvertReturned == pc \in {"done", "err", "panic"}

C9_SimplifyInvariant ==
    NonDecreasing(input) =>
        /\ pc \in {"inner", "emit"} =>
               /\ write_index <= start
               /\ start <= read_index
               /\ \A i \in (start + 1)..Len(self_vec) : self_vec[i] = input[i]
        /\ pc = "outer" =>
               /\ write_index <= read_index
               /\ \A i \in (read_index + 1)..Len(self_vec) :
                      self_vec[i] = input[i]
        /\ pc = "done" =>
               /\ IsSimplificationOf(self_vec, input)
               /\ simplify(new(input, self_reversed)) = new(self_vec, self_reversed)

\* C9: on a non-decreasing vector simplify() leaves one copy of each value of
\* odd run length and none of a value of even run length, in order, with
\* leading_state (reversed) as it was; the in-place pass never writes at or
\* beyond an entry it has not read yet (write_index <= start), and it ends.
C9_SimplifyKeepsOddRuns == [](C9_SimplifyInvariant) /\ <>(ConvertReturned)

\* The documented example: [0, 0, 1, 1] has been simplified to [].
C9_Witness ==
    /\ pc = "done"
    /\ input = <<0, 0, 1, 1>>
    /\ self_vec = <<>>

\* C10: try_from fails iff the vector is not non-decreasing, with the
\* smallest index i >= 1 such that seq[i] < seq[i - 1]; otherwise it yields
\* a mask with leading_state (reversed) false whose boundaries are the
\* simplification of the vector; from and from_complement panic exactly when
\* try_from fails; is_valid() is true exactly when no such index exists.
C10_TryFromValidates ==
    /\ pc \in {"err", "panic"} =>
           /\ falling_pos >= 1
           /\ falling_pos \in FallingIndices(input)
           /\ \A i \in FallingIndices(input) : falling_pos <= i
    /\ (caller # "with_unchecked" /\ pc # "call") =>
           /\ (pc \in {"err", "panic"}) = ~NonDecreasing(input)
           /\ (pc = "err") => caller = "try_from"
           /\ (pc = "panic") => caller \in {"from", "from_complement"}
           /\ (pc = "panic") = (caller # "try_from" /\ ~try_from(input).ok)
    /\ (caller # "with_unchecked" /\ pc = "done") =>
           /\ NonDecreasing(input)
           /\ IsSimplificationOf(self_vec, input)
           /\ self_reversed = (caller = "from_complement")
           /\ try_new(input, self_reversed) = Ok(new(self_vec, self_reversed))
    /\ pc = "built" =>
           is_valid(new(self_vec, self_reversed)) = (FallingIndices(input) = {})

\* try_from has returned an Err for a vector that falls twice, the first
\* time after index 1.
C10_Witness ==
    /\ pc = "err"
    /\ falling_pos >= 2
    /\ Cardinality(FallingIndices(input)) >= 2

\* ======================================================================
\* Properties of one call of a key-point constructor (SpecKeyPoints)
\* ======================================================================
\* The state accumulated when the walk reaches point p: include_min_value
\* toggled once per boundary already kept (the kept boundaries below p).
AccumulatedState(result, include_min_value, p) ==
    Xor(include_min_value,
        Cardinality({i \in 1..len(result) : result.key_points[i] < p}) % 2 = 1)

\* The shape of the result: leading_state, boundaries and the keep rule.
KeyPointsShape(args, result) ==
    /\ result.reversed = args.include_min_value
    /\ StrictlyIncreasing(result.key_points)
    /\ Range(result.key_points) \subseteq args.key_points
    /\ \A p \in args.key_points :
           (p \in Range(result.key_points)) =
               (args.is_included[p] #
                    AccumulatedState(result, args.include_min_value, p))

\* The answers of the result: the predicate at every key point, and
\* include_min_value below the smallest key point.
KeyPointsAnswers(args, result) ==
    /\ \A p \in args.key_points :
           included(result, p) = args.is_included[p]
    /\ \A v \in Values :
           (args.key_points # {} /\ v < Min(args.key_points)) =>
               (included(result, v) = args.include_min_value)

\* C14: from_key_points_set keeps point p iff is_included(p) differs from
\* the state accumulated so far; the result has leading_state =
\* include_min_value, boundaries that are a strictly increasing subset of
\* the points, included(p) = is_included(p) at every key point p and state
\* include_min_value below the smallest key point; from_key_points_map
\* returns the same mask when the predicate is the map lookup.
C14_FromKeyPoints ==
    op # "none" =>
        /\ KeyPointsShape(operands, out)
        /\ KeyPointsAnswers(operands, out)
        /\ out = from_key_points_set(operands.key_points, operands.is_included,
                                     operands.include_min_value)

====
